---- MODULE Spec2Model ----
(***************************************************************************)
(* QSimpleCrypto: the AEAD drivers of QAead (QAead.cpp) and of the older   *)
(* AuthenticatedEncryption class (AuthenticatedEncryption.cpp).            *)
(*                                                                         *)
(* One invocation is a walk through the provider calls the function makes, *)
(* in the order of its source text.  The provider is OpenSSL's EVP cipher  *)
(* context for AES-GCM and AES-CCM, modelled by the state it keeps between *)
(* calls (key_set, iv_set, ivlen, taglen, L, M, tag_set, len_set).  AES    *)
(* itself is abstract: the keystream is a function of the key and nonce    *)
(* bytes the context holds, the tag is a symbolic MAC over (key, nonce,    *)
(* aad, ciphertext, M), so two tags agree exactly when their inputs do.    *)
(***************************************************************************)
EXTENDS Integers, Sequences, FiniteSets, TLC

VARIABLES
    call,      \* the arguments of the invocation under way (or of the last one)
    pc,        \* position of the handler: "idle", a step name, or "done"
    ctx,       \* the EVP_CIPHER_CTX the unique_ptr owns
    outBuf,    \* cipherText / plainText: the internal output buffer
    inLen,     \* plainTextLength (encrypt) / cipherTextLength (decrypt): the input length
    outLen,    \* cipherTextLength (encrypt) / plainTextLength (decrypt): the update's count
    tag,       \* the bytes of the caller's tag QByteArray
    outcome,   \* what the caller gets: a returned QByteArray or a thrown object
    why,       \* history: the step that ended the invocation and the cause
    trace,     \* history: the provider calls of this invocation, in order
    held,      \* number of provider contexts allocated and not yet freed
    freed,     \* number of EVP_CIPHER_CTX_free calls of this invocation
    overread,  \* history: bytes read past the end of a caller's array
    sent,      \* the message of the last successful encryption
    finalLen,  \* finalLength of the block cipher functions
    keyArr,    \* the memory of the caller's key array (block cipher functions)
    ivArr,     \* the memory of the caller's iv array (block cipher functions)
    overwrite, \* history: bytes written past the end of a caller's array
    store,     \* what the caller's X509_STORE holds
    tcall,     \* concurrent invocations: the arguments of each thread's call
    passed,    \* concurrent invocations: the key, iv and tag array objects passed
    tloc,      \* concurrent invocations: each call's position, locals and outcome
    mem        \* concurrent invocations: the memory of the array objects

vars == <<call, pc, ctx, outBuf, inLen, outLen, tag, outcome, why, trace, held, freed,
          overread, sent, finalLen, keyArr, ivArr, overwrite, store,
          tcall, passed, tloc, mem>>

\* The state of the single invocation, and that of the concurrent ones.
seqVars == <<call, pc, ctx, outBuf, inLen, outLen, tag, outcome, why, trace, held,
             freed, overread, sent, finalLen, keyArr, ivArr, overwrite, store>>
concVars == <<tcall, passed, tloc, mem>>

\* What only the block cipher functions change.
bcVars == <<finalLen, keyArr, ivArr, overwrite>>

----------------------------------------------------------------------------
(* Bounds of the model *)

MaxDataLen == 2
MaxAadLen == 1
MaxSaltSize == 4

----------------------------------------------------------------------------
(* Byte sequences *)

Rep(b, n) == [i \in 1..n |-> b]

Take(s, n) == SubSeq(s, 1, IF n < Len(s) THEN n ELSE Len(s))

RECURSIVE Sum(_)
Sum(s) == IF s = <<>> THEN 0 ELSE Head(s) + Sum(Tail(s))

Max0(n) == IF n < 0 THEN 0 ELSE n

\* Values a byte outside the array can hold when it is read.
Garbage == {0, 255}

(* The n bytes at p = array.data(): the array's bytes, then the '\0' that   *)
(* QByteArray keeps behind them, then whatever memory follows (g).          *)
ReadBytes(array, n, g) ==
    IF n <= Len(array) THEN SubSeq(array, 1, n)
    ELSE array \o <<0>> \o Rep(g, n - Len(array) - 1)

\* Bytes of that read which lie past the end of the array's contents.
PastEnd(array, n) == Max0(n - Len(array))

----------------------------------------------------------------------------
(* Inputs *)

Apis == {"QAead", "AuthenticatedEncryption"}
Modes == {"GCM", "CCM"}
\* EVP_aes_128_gcm / EVP_aes_256_gcm (and _ccm): the cipher argument
Bits == {128, 256}
KeySize(bits) == bits \div 8

Keys == {Rep(170, 16), Rep(170, 32)}
IVs == {Rep(1, 7), Rep(1, 12), Rep(1, 14)}
Datas == {[i \in 1..n |-> 64 + i] : n \in 0..MaxDataLen}
Aads == {[i \in 1..n |-> 98 + i] : n \in 0..MaxAadLen}
\* The caller's tag buffer on entry to an encryption: its length is the
\* requested tag length.
RawByte(n) == <<n>>
TagBufs == {Rep(RawByte(0), 8), Rep(RawByte(0), 16)}

----------------------------------------------------------------------------
(* The provider: an EVP_CIPHER_CTX for AES-GCM / AES-CCM *)

NoCtx ==
    [alloc |-> FALSE, mode |-> "none", enc |-> FALSE, bits |-> 0,
     key_set |-> FALSE, iv_set |-> FALSE, key |-> <<>>, iv |-> <<>>,
     ivlen |-> 0, taglen |-> -1, tagbuf |-> <<>>, tag_set |-> FALSE,
     len_set |-> FALSE, msglen |-> 0, aad |-> <<>>, mac |-> <<>>,
     buf |-> <<>>, final |-> <<>>, final_used |-> FALSE, pos |-> 0]

\* EVP_CIPHER_CTX_new(): a zeroed context.
EVP_CIPHER_CTX_new == [NoCtx EXCEPT !.alloc = TRUE]

\* Length of the nonce the provider takes at init, before any SET_IVLEN.
DefaultIvLen(mode) == IF mode = "GCM" THEN 12 ELSE IF mode = "CCM" THEN 7 ELSE 16

(* EVP_EncryptInit_ex / EVP_DecryptInit_ex (ctx, cipher, nullptr, key, iv): *)
(* the provider is given two pointers and no lengths.  It reads the        *)
(* cipher's key size from key and the context's current nonce length from  *)
(* iv; a freshly created context has the default nonce length.             *)
EVP_CipherInit_ex(c, mode, bits, enc, key, iv, g) ==
    [ok |-> TRUE,
     ctx |-> [c EXCEPT !.mode = mode, !.enc = enc, !.bits = bits,
                       !.key = ReadBytes(key, KeySize(bits), g),
                       !.key_set = TRUE,
                       !.iv = ReadBytes(iv, DefaultIvLen(mode), g),
                       !.iv_set = TRUE,
                       !.ivlen = DefaultIvLen(mode),
                       !.taglen = IF mode = "CCM" THEN 12 ELSE -1]]

(* EVP_CIPHER_CTX_ctrl(ctx, EVP_CTRL_GCM_SET_IVLEN / EVP_CTRL_CCM_SET_IVLEN, *)
(* arg, nullptr): GCM takes any positive length, CCM 7..13.  Only the      *)
(* length changes: the nonce bytes are those init has read.                *)
EVP_CTRL_SET_IVLEN(c, arg) ==
    IF c.mode = "GCM"
    THEN [ok |-> arg > 0, ctx |-> [c EXCEPT !.ivlen = arg]]
    ELSE [ok |-> arg >= 7 /\ arg <= 13, ctx |-> [c EXCEPT !.ivlen = arg]]

(* EVP_CIPHER_CTX_ctrl(ctx, EVP_CTRL_GCM_SET_TAG / EVP_CTRL_CCM_SET_TAG,   *)
(* arg, ptr).  GCM: decryption only, 1..16 bytes.  CCM: an even length     *)
(* 4..16; with ptr (decryption) the expected tag, without (encryption) the *)
(* tag length M.                                                           *)
EVP_CTRL_SET_TAG(c, arg, ptr) ==
    IF c.mode = "GCM"
    THEN [ok |-> arg > 0 /\ arg <= 16 /\ ~c.enc,
          ctx |-> [c EXCEPT !.tagbuf = Take(ptr, arg), !.taglen = arg]]
    ELSE [ok |-> arg % 2 = 0 /\ arg >= 4 /\ arg <= 16 /\ ~(c.enc /\ ptr # <<>>),
          ctx |-> [c EXCEPT !.tagbuf = Take(ptr, arg), !.taglen = arg,
                            !.tag_set = (ptr # <<>>)]]

\* The nonce the transform runs with: GCM fixed it at init; CCM takes ivlen
\* bytes of the context's zero-initialised iv field when the length is set.
NonceUsed(c) ==
    IF c.mode = "GCM" THEN c.iv
    ELSE Take(c.iv \o Rep(0, 16), c.ivlen)

\* EVP_*Update(ctx, nullptr, &len, nullptr, n): CCM's message length.
EVP_Update_Length(c, n) ==
    [ok |-> c.key_set /\ c.iv_set,
     ctx |-> [c EXCEPT !.len_set = TRUE, !.msglen = n]]

\* A provider that takes no aad update of length 0.
EVP_Update_Aad_NonEmpty(c, aad) ==
    [ok |-> c.key_set /\ c.iv_set /\ aad # <<>> /\ (c.mode = "CCM" => c.len_set),
     ctx |-> [c EXCEPT !.aad = c.aad \o aad]]

\* EVP_*Update(ctx, nullptr, &len, aad, n): CCM needs the length first when
\* n > 0; with n = 0 nothing is added to what the tag covers.
EVP_Update_Aad(c, aad) ==
    [ok |-> c.key_set /\ c.iv_set /\ ((c.mode = "CCM" /\ aad # <<>>) => c.len_set),
     ctx |-> [c EXCEPT !.aad = c.aad \o aad]]

KeyStream(c, i) == (Sum(c.key) + Sum(NonceUsed(c)) + i) % 256

\* The transform of the bytes in that follow the c.pos bytes done before.
Transform(c, in) ==
    [i \in 1..Len(in) |->
        IF c.enc THEN (in[i] + KeyStream(c, c.pos + i)) % 256
        ELSE (in[i] + 256 - KeyStream(c, c.pos + i)) % 256]

\* What the tag authenticates; CCM's MAC also covers the tag length M.
MacInput(c, ciphertext) ==
    <<c.key, NonceUsed(c), c.aad, ciphertext,
      IF c.mode = "CCM" THEN c.taglen ELSE 0>>

MacByte(i, m) == <<i, m>>

\* The first n bytes of the tag over m.
Mac(m, n) == [i \in 1..n |-> MacByte(i, m)]

(* EVP_EncryptUpdate / EVP_DecryptUpdate (ctx, out, &len, in, n): the data. *)
(* out gets n bytes.  CCM decryption compares the tag here, and reports a  *)
(* mismatch as a failed update whose output is wiped.                      *)
EVP_Update_Data(c, in) ==
    LET out == Transform(c, in)
        m == MacInput(c, IF c.enc THEN out ELSE in)
        c2 == [c EXCEPT !.mac = m, !.len_set = TRUE, !.msglen = Len(in)]
    IN  IF ~(c.key_set /\ c.iv_set) THEN [ok |-> FALSE, ctx |-> c, out |-> <<>>, auth |-> TRUE]
        ELSE IF c.mode = "GCM" THEN [ok |-> TRUE, ctx |-> c2, out |-> out, auth |-> TRUE]
        ELSE IF c.len_set /\ c.msglen # Len(in)
             THEN [ok |-> FALSE, ctx |-> c, out |-> <<>>, auth |-> TRUE]
        ELSE IF c.enc
             THEN [ok |-> TRUE, ctx |-> [c2 EXCEPT !.tag_set = TRUE], out |-> out, auth |-> TRUE]
        ELSE IF ~c.tag_set THEN [ok |-> FALSE, ctx |-> c, out |-> <<>>, auth |-> TRUE]
        ELSE IF c.tagbuf = Mac(m, c.taglen)
             THEN [ok |-> TRUE, ctx |-> c2, out |-> out, auth |-> TRUE]
        ELSE [ok |-> FALSE, ctx |-> c2, out |-> Rep(0, Len(in)), auth |-> FALSE]

(* EVP_EncryptFinal_ex / EVP_DecryptFinal_ex (ctx, out, &len): writes no   *)
(* byte in GCM and CCM and sets len to 0.  GCM encryption makes the tag    *)
(* available; GCM decryption compares the expected tag and fails on a      *)
(* mismatch or when none was installed.  CCM's finalize checks nothing.    *)
EVP_Final_ex(c) ==
    IF ~c.key_set THEN [ok |-> FALSE, ctx |-> c, auth |-> TRUE]
    ELSE IF c.mode = "CCM" THEN [ok |-> TRUE, ctx |-> c, auth |-> TRUE]
    ELSE IF c.enc
         THEN [ok |-> TRUE, auth |-> TRUE,
               ctx |-> [c EXCEPT !.tagbuf = Mac(c.mac, 16),
                                 !.taglen = 16, !.iv_set = FALSE]]
    ELSE IF c.taglen < 0 THEN [ok |-> FALSE, ctx |-> c, auth |-> TRUE]
    ELSE IF c.tagbuf = Mac(c.mac, c.taglen)
         THEN [ok |-> TRUE, ctx |-> [c EXCEPT !.iv_set = FALSE], auth |-> TRUE]
    ELSE [ok |-> FALSE, ctx |-> c, auth |-> FALSE]

(* EVP_CIPHER_CTX_ctrl(ctx, EVP_CTRL_GCM_GET_TAG / EVP_CTRL_CCM_GET_TAG,   *)
(* arg, ptr): copies arg tag bytes to ptr.  GCM has a tag only after       *)
(* finalize (taglen >= 0), CCM after the data update (tag_set), and CCM    *)
(* gives exactly M bytes.                                                  *)
EVP_CTRL_GET_TAG(c, arg) ==
    IF c.mode = "GCM"
    THEN [ok |-> arg > 0 /\ arg <= 16 /\ c.enc /\ c.taglen >= 0,
          ctx |-> c, out |-> Take(c.tagbuf, arg)]
    ELSE [ok |-> c.enc /\ c.tag_set /\ arg = c.taglen,
          ctx |-> [c EXCEPT !.tag_set = FALSE, !.iv_set = FALSE, !.len_set = FALSE],
          out |-> Mac(c.mac, arg)]

----------------------------------------------------------------------------
(* The provider: password based key derivation and the block modes *)

AES_BLOCK_SIZE == 16

BlockModes == {"CBC", "CTR"}

\* What is in memory at p = array.data() once bytes were stored behind the end.
Memory(arr) == arr.bytes \o arr.past

\* The memory of the array after the bytes w were stored at array.data().
StoreAt(arr, w) ==
    IF Len(w) <= Len(arr.bytes)
    THEN [bytes |-> w \o SubSeq(arr.bytes, Len(w) + 1, Len(arr.bytes)),
          past |-> arr.past]
    ELSE [bytes |-> Take(w, Len(arr.bytes)),
          past |-> SubSeq(w, Len(arr.bytes) + 1, Len(w))
                   \o SubSeq(arr.past, Len(w) - Len(arr.bytes) + 1, Len(arr.past))]

\* The digest chain over password, salt and count, as bytes number i.
Derived(password, salt8, count, n, first) ==
    [i \in 1..n |-> (Sum(password) + 2 * Sum(salt8) + count + first + i) % 256]

(* EVP_BytesToKey(cipher, md, salt, data, datal, count, key, iv): hashes     *)
(* data and the 8 bytes (PKCS5_SALT_LEN) at salt count times and gives the  *)
(* cipher's key size of bytes for key, then its iv length for iv.  It       *)
(* returns the key size.                                                    *)
EVP_BytesToKey(bits, salt, password, count, g) ==
    LET salt8 == ReadBytes(salt, 8, g)
    IN  [ok |-> KeySize(bits) # 0,
         key |-> Derived(password, salt8, count, KeySize(bits), 0),
         iv |-> Derived(password, salt8, count, AES_BLOCK_SIZE, KeySize(bits))]

\* The whole blocks at the start of n bytes.
Blocks(n) == (n \div AES_BLOCK_SIZE) * AES_BLOCK_SIZE

(* EVP_EncryptUpdate / EVP_DecryptUpdate (ctx, out, &len, in, n) of a block *)
(* mode.  CTR gives n bytes.  CBC gives the whole blocks and keeps the rest; *)
(* in decryption it also keeps back the last whole block when the input     *)
(* ends with it, for finalize to strip the padding.                         *)
EVP_Update_Block(c, in) ==
    LET all == c.buf \o in
        k == Blocks(Len(all))
        out == Transform(c, Take(all, k))
        rest == SubSeq(all, k + 1, Len(all))
    IN  IF ~c.key_set THEN [ok |-> FALSE, ctx |-> c, out |-> <<>>]
        ELSE IF in = <<>> THEN [ok |-> TRUE, ctx |-> c, out |-> <<>>]
        ELSE IF c.mode = "CTR"
             THEN [ok |-> TRUE, out |-> Transform(c, in),
                   ctx |-> [c EXCEPT !.pos = c.pos + Len(in)]]
        ELSE IF c.enc \/ k = 0 \/ rest # <<>>
             THEN [ok |-> TRUE, out |-> out,
                   ctx |-> [c EXCEPT !.buf = rest, !.pos = c.pos + k,
                                     !.final_used = FALSE]]
        ELSE [ok |-> TRUE, out |-> Take(out, k - AES_BLOCK_SIZE),
              ctx |-> [c EXCEPT !.buf = <<>>, !.pos = c.pos + k,
                                !.final = SubSeq(out, k - AES_BLOCK_SIZE + 1, k),
                                !.final_used = TRUE]]

\* The padding of a decrypted last block is n bytes of value n, 1 <= n <= 16.
GoodPadding(block) ==
    LET n == block[AES_BLOCK_SIZE]
    IN  /\ n >= 1
        /\ n <= AES_BLOCK_SIZE
        /\ \A i \in (AES_BLOCK_SIZE - n + 1)..AES_BLOCK_SIZE : block[i] = n

(* EVP_EncryptFinal / EVP_DecryptFinal (ctx, out, &len) of a block mode.   *)
(* CTR gives nothing.  CBC encryption gives the block of the kept bytes    *)
(* and their padding; CBC decryption fails without a kept whole block or   *)
(* with a malformed padding, and gives the block without its padding.      *)
EVP_Final_Block(c) ==
    LET n == AES_BLOCK_SIZE - Len(c.buf)
    IN  IF ~c.key_set THEN [ok |-> FALSE, ctx |-> c, out |-> <<>>, pad |-> TRUE]
        ELSE IF c.mode = "CTR" THEN [ok |-> TRUE, ctx |-> c, out |-> <<>>, pad |-> TRUE]
        ELSE IF c.enc
             THEN [ok |-> TRUE, ctx |-> c, pad |-> TRUE,
                   out |-> Transform(c, c.buf \o Rep(n, n))]
        ELSE IF c.buf # <<>> \/ ~c.final_used
             THEN [ok |-> FALSE, ctx |-> c, out |-> <<>>, pad |-> FALSE]
        ELSE IF GoodPadding(c.final)
             THEN [ok |-> TRUE, ctx |-> c, pad |-> TRUE,
                   out |-> Take(c.final, AES_BLOCK_SIZE - c.final[AES_BLOCK_SIZE])]
        ELSE [ok |-> FALSE, ctx |-> c, out |-> <<>>, pad |-> FALSE]

----------------------------------------------------------------------------
(* The functions: the order of their steps *)

\* "new"     EVP_CIPHER_CTX_new into the unique_ptr
\* "buf"     the length variables and new unsigned char[n]()
\* "init"    EVP_EncryptInit_ex / EVP_DecryptInit_ex
\* "ivlen"   EVP_CIPHER_CTX_ctrl SET_IVLEN
\* "settag"  EVP_CIPHER_CTX_ctrl SET_TAG
\* "declare" EVP_*Update(ctx, nullptr, &len, nullptr, n)
\* "aad"     EVP_*Update(ctx, nullptr, &len, aad, aad.length())
\* "update"  EVP_*Update(ctx, out, &len, data, n)
\* "final"   EVP_EncryptFinal_ex / EVP_DecryptFinal_ex
\* "gettag"  EVP_CIPHER_CTX_ctrl GET_TAG
\* "ret"     return QByteArray(out, len)
\* and in the block cipher functions
\* "bc_buf"     the length variables and new unsigned char[n]()
\* "bytestokey" EVP_BytesToKey
\* "bc_init"    EVP_EncryptInit_ex / EVP_DecryptInit_ex
\* "bc_update"  EVP_EncryptUpdate / EVP_DecryptUpdate
\* "bc_final"   EVP_EncryptFinal / EVP_DecryptFinal
\* "bc_ret"     return QByteArray(out, len + finalLength)
ProviderSteps ==
    {"new", "init", "ivlen", "settag", "declare", "aad", "update", "final", "gettag",
     "bytestokey", "bc_init", "bc_update", "bc_final"}

\* encryptAesGcm reading the tag before it finalizes.
encryptAesGcm_TagFirst(aad) ==
    <<"new", "buf", "init", "ivlen">>
    \o (IF aad # <<>> THEN <<"aad">> ELSE <<>>)
    \o <<"update", "gettag", "final", "ret">>

encryptAesGcm(aad) ==
    <<"new", "buf", "init", "ivlen">>
    \o (IF aad # <<>> THEN <<"aad">> ELSE <<>>)
    \o <<"update", "final", "gettag", "ret">>

\* decryptAesGcm returning what the data update wrote, without finalize.
decryptAesGcm_NoFinal(aad) ==
    <<"new", "buf", "init", "ivlen">>
    \o (IF aad # <<>> THEN <<"aad">> ELSE <<>>)
    \o <<"update", "settag", "ret">>

decryptAesGcm(aad) ==
    <<"new", "buf", "init", "ivlen">>
    \o (IF aad # <<>> THEN <<"aad">> ELSE <<>>)
    \o <<"update", "settag", "final", "ret">>

\* encryptAesCcm feeding the aad before it declares the length.
encryptAesCcm_AadFirst(aad) ==
    <<"new", "buf", "init", "ivlen", "settag">>
    \o (IF aad # <<>> THEN <<"aad", "declare">> ELSE <<>>)
    \o <<"update", "final", "gettag", "ret">>

encryptAesCcm(aad) ==
    <<"new", "buf", "init", "ivlen", "settag">>
    \o (IF aad # <<>> THEN <<"declare", "aad">> ELSE <<>>)
    \o <<"update", "final", "gettag", "ret">>

\* decryptAesCcm installing the tag where decryptAesGcm does, after the data.
decryptAesCcm_TagLate(aad) ==
    <<"new", "buf", "init", "ivlen">>
    \o (IF aad # <<>> THEN <<"declare", "aad">> ELSE <<>>)
    \o <<"update", "settag", "final", "ret">>

decryptAesCcm(aad) ==
    <<"new", "buf", "init", "ivlen", "settag">>
    \o (IF aad # <<>> THEN <<"declare", "aad">> ELSE <<>>)
    \o <<"update", "final", "ret">>

encrypt_aes_gcm(aad) ==
    <<"new", "buf", "init", "ivlen">>
    \o (IF Len(aad) > 0 THEN <<"aad">> ELSE <<>>)
    \o <<"update", "final", "gettag", "ret">>

\* decrypt_aes_gcm without the control call that installs the tag.
decrypt_aes_gcm_NoTag(aad) ==
    <<"new", "buf", "init", "ivlen">>
    \o (IF Len(aad) > 0 THEN <<"aad">> ELSE <<>>)
    \o <<"update", "final", "ret">>

decrypt_aes_gcm(aad) ==
    <<"new", "buf", "init", "ivlen">>
    \o (IF Len(aad) > 0 THEN <<"aad">> ELSE <<>>)
    \o <<"update", "settag", "final", "ret">>

encrypt_aes_ccm(aad) ==
    <<"new", "buf", "init", "ivlen", "settag">>
    \o (IF Len(aad) > 0 THEN <<"declare", "aad">> ELSE <<>>)
    \o <<"update", "final", "gettag", "ret">>

decrypt_aes_ccm(aad) ==
    <<"new", "buf", "init", "ivlen", "settag">>
    \o (IF Len(aad) > 0 THEN <<"declare", "aad">> ELSE <<>>)
    \o <<"update", "final", "ret">>

encryptAesBlockCipher ==
    <<"new", "bc_buf", "bytestokey", "bc_init", "bc_update", "bc_final", "bc_ret">>

decryptAesBlockCipher ==
    <<"new", "bc_buf", "bytestokey", "bc_init", "bc_update", "bc_final", "bc_ret">>

\* The QX509Store functions that make one provider call and nothing else.
StoreSetters ==
    {"addCertificateToStore", "addLookup", "setDepth", "setFlag", "setPurpose",
     "setTrust", "loadStoreDefaultCertificates"}

\* The three overloads of loadLocations.
LoadLocations ==
    {"loadLocations(fileName, dirPath)", "loadLocations(QFile)",
     "loadLocations(QFileInfo)"}

StoreOps == StoreSetters \cup LoadLocations

\* if (!X509_STORE_...(store, ...)) throw; return true;
storeSetter == <<"x509_call", "x509_ret">>

\* loadLocations calling the provider before it looks for the file.
loadLocations_LoadFirst == <<"x509_call", "exists", "x509_ret">>

\* if (fileInfo.exists()) { if (!X509_STORE_load_locations(...)) throw; return true; }
loadLocations == <<"exists", "x509_call", "x509_ret">>

Order(c) ==
    IF c.api = "QX509Store"
    THEN IF c.op \in LoadLocations THEN loadLocations ELSE storeSetter
    ELSE IF c.api = "QBlockCipher"
    THEN IF c.enc THEN encryptAesBlockCipher ELSE decryptAesBlockCipher
    ELSE IF c.api = "QAead"
    THEN IF c.mode = "GCM"
         THEN IF c.enc THEN encryptAesGcm(c.aad) ELSE decryptAesGcm(c.aad)
         ELSE IF c.enc THEN encryptAesCcm(c.aad) ELSE decryptAesCcm(c.aad)
    ELSE IF c.mode = "GCM"
         THEN IF c.enc THEN encrypt_aes_gcm(c.aad) ELSE decrypt_aes_gcm(c.aad)
         ELSE IF c.enc THEN encrypt_aes_ccm(c.aad) ELSE decrypt_aes_ccm(c.aad)

Position(order, s) == CHOOSE i \in 1..Len(order) : order[i] = s

\* The statement after step s in the function's text.
After(s) == Order(call)[Position(Order(call), s) + 1]

----------------------------------------------------------------------------
(* What the caller gets *)

NoOutcome == [kind |-> "none", type |-> "none", bytes |-> <<>>, text |-> ""]

\* return QByteArray(reinterpret_cast<char*>(out), len)
Returned(bytes) ==
    [kind |-> "returned", type |-> "QByteArray", bytes |-> bytes, text |-> ""]

\* return true; / return false;
ReturnedBool(b) ==
    [kind |-> "returned", type |-> "bool", bytes |-> <<>>,
     text |-> IF b THEN "true" ELSE "false"]

\* The text of the std::runtime_error each step throws (QAead) or logs.
Message(step) == "Couldn't " \o step

\* A failure that hands the caller the output buffer as it is.
FailureOutcome_Buffer(api, step) == {Returned(Take(outBuf, outLen))}

\* A failure of finalize that has a type of its own.
FailureOutcome_Typed(api, step) ==
    IF step = "final"
    THEN {[kind |-> "threw", type |-> "AuthenticationFailure", bytes |-> <<>>,
           text |-> Message(step)]}
    ELSE IF api \in {"QAead", "QBlockCipher"}
    THEN {[kind |-> "threw", type |-> "const char*", bytes |-> <<>>, text |-> t] :
            t \in {Message(step), "indeterminate"}}
    ELSE IF step = "buf"
         THEN {[kind |-> "threw", type |-> "std::bad_alloc", bytes |-> <<>>, text |-> ""]}
         ELSE {Returned(<<>>)}

(* A failed step.                                                          *)
(* QAead: throw std::runtime_error(text); the handler                      *)
(*   catch (const std::exception& e) { std::throw_with_nested(e.what()); } *)
(* throws a const char* (not a class type, so nothing is nested) that      *)
(* points into the runtime_error, which is destroyed when the handler is   *)
(* left: what the caller reads through it is the text or anything else.    *)
(* std::bad_alloc of new[] takes the same handler.                         *)
(* QBlockCipher: the same throw and the same handler.                      *)
(* AuthenticatedEncryption: qCritical() << text; return QByteArray();      *)
(* new[] is not in a try block there, std::bad_alloc leaves the function.  *)
(* QX509Store: throw std::runtime_error(text); the handler                 *)
(*   catch (const std::runtime_error& e) { std::throw_with_nested(e); }    *)
(* throws an object derived from std::runtime_error and from               *)
(* std::nested_exception, which holds a copy of the text.                  *)
FailureOutcome(api, step) ==
    IF api = "QX509Store"
    THEN {[kind |-> "threw", type |-> "std::runtime_error with std::nested_exception",
           bytes |-> <<>>, text |-> Message(step)]}
    ELSE IF api \in {"QAead", "QBlockCipher"}
    THEN {[kind |-> "threw", type |-> "const char*", bytes |-> <<>>, text |-> t] :
            t \in {Message(step), "indeterminate"}}
    ELSE IF step = "buf"
         THEN {[kind |-> "threw", type |-> "std::bad_alloc", bytes |-> <<>>, text |-> ""]}
         ELSE {Returned(<<>>)}

\* What a caller can act on without reading a message text.
Observable(o) == [kind |-> o.kind, type |-> o.type, bytes |-> o.bytes]

----------------------------------------------------------------------------
(* The state machine *)

NoCall ==
    [api |-> "none", mode |-> "none", enc |-> FALSE, bits |-> 0, key |-> <<>>,
     iv |-> <<>>, data |-> <<>>, aad |-> <<>>, tag |-> <<>>, taglen |-> 0,
     tamper |-> "none", password |-> <<>>, salt |-> <<>>, rounds |-> 0,
     op |-> "none", size |-> 0, exists |-> FALSE]

NoMsg ==
    [mode |-> "none", bits |-> 0, key |-> <<>>, iv |-> <<>>, aad |-> <<>>,
     ct |-> <<>>, tag |-> <<>>, pt |-> <<>>,
     password |-> <<>>, salt |-> <<>>, rounds |-> 0,
     ckey |-> <<>>, civ |-> <<>>]

NoWhy == [step |-> "none", cause |-> "none"]

\* A caller's array in memory: its bytes, and bytes stored behind its end.
NoArr == [bytes |-> <<>>, past |-> <<>>]

SeqInit ==
    /\ call = NoCall
    /\ pc = "idle"
    /\ ctx = NoCtx
    /\ outBuf = <<>>
    /\ inLen = 0
    /\ outLen = 0
    /\ tag = <<>>
    /\ outcome = NoOutcome
    /\ why = NoWhy
    /\ trace = <<>>
    /\ held = 0
    /\ freed = 0
    /\ overread = 0
    /\ sent = NoMsg
    /\ finalLen = 0
    /\ keyArr = NoArr
    /\ ivArr = NoArr
    /\ overwrite = 0
    /\ store = {}

Entry(step, ok, n, bytes) == [step |-> step, ok |-> ok, n |-> n, bytes |-> bytes]

(* Leaving the function's scope, by return or by exception: the unique_ptr *)
(* { EVP_CIPHER_CTX_new(), EVP_CIPHER_CTX_free } calls its deleter when it *)
(* holds a context, and the output buffer's unique_ptr deletes the array.  *)
Releases(c) == IF c.alloc THEN 1 ELSE 0

\* A scope exit with a raw pointer: nothing frees the context.
ScopeExit_Leak ==
    /\ held' = held
    /\ freed' = freed
    /\ ctx' = NoCtx
    /\ outBuf' = <<>>

ScopeExit ==
    /\ held' = held - Releases(ctx)
    /\ freed' = freed + Releases(ctx)
    /\ ctx' = NoCtx
    /\ outBuf' = <<>>

\* The invocation ends at a step that did not succeed.
Fail(step, cause, entry) ==
    /\ pc' = "done"
    /\ outcome' \in FailureOutcome(call.api, step)
    /\ why' = [step |-> step, cause |-> cause]
    /\ trace' = trace \o entry
    /\ ScopeExit
    /\ UNCHANGED <<call, inLen, outLen, tag, overread, sent, bcVars>>

\* The step succeeded: go on to the next statement.
Proceed(step, entry) ==
    /\ pc' = After(step)
    /\ trace' = trace \o entry
    /\ UNCHANGED <<call, outcome, why, held, freed, sent>>

\* A caller invokes one of the four encryption functions.
CallEncrypt ==
    /\ pc = "idle"
    /\ \E api \in Apis, mode \in Modes, bits \in Bits, key \in Keys, iv \in IVs,
          data \in Datas, aad \in Aads, t \in TagBufs :
          /\ call' = [api |-> api, mode |-> mode, enc |-> TRUE, bits |-> bits,
                      key |-> key, iv |-> iv, data |-> data, aad |-> aad,
                      tag |-> t, taglen |-> Len(t), tamper |-> "none",
                      password |-> <<>>, salt |-> <<>>, rounds |-> 0,
                      op |-> "none", size |-> 0, exists |-> FALSE]
          /\ tag' = t
    /\ pc' = "new"
    /\ UNCHANGED <<ctx, outBuf, inLen, outLen, outcome, why, trace, held, freed,
                   overread, sent, bcVars>>
    /\ UNCHANGED store
    /\ UNCHANGED concVars

\* One byte of a data or aad sequence with a bit flipped.
FlipAt(s, i) == [s EXCEPT ![i] = (@ + 1) % 256]

\* One byte of a tag with a bit flipped: a byte of no tag.
FlipTagAt(t, i) == [t EXCEPT ![i] = <<i, @, 1>>]

Tampers == {"none", "data", "tag", "aad"}

(* A caller invokes the decryption function of the same algorithm on the   *)
(* message of the last encryption, with the same key and nonce bytes;      *)
(* ciphertext, tag or aad may have one byte altered on the way.            *)
CallDecrypt ==
    /\ pc = "done"
    /\ call.api \in Apis
    /\ call.enc
    /\ why.step = "none"
    /\ \E api \in Apis, tamper \in Tampers :
        \E i \in 1..MaxDataLen + MaxAadLen, j \in {1, Len(sent.tag)} :
        LET t == IF tamper = "tag" THEN FlipTagAt(sent.tag, j) ELSE sent.tag IN
          /\ tamper = "data" => i <= Len(sent.ct)
          /\ tamper = "aad" => i <= Len(sent.aad)
          /\ tamper \in {"none", "tag"} => i = 1
          /\ tamper # "tag" => j = 1
          /\ call' = [api |-> api, mode |-> sent.mode, enc |-> FALSE,
                      bits |-> sent.bits, key |-> sent.key, iv |-> sent.iv,
                      data |-> IF tamper = "data" THEN FlipAt(sent.ct, i) ELSE sent.ct,
                      aad |-> IF tamper = "aad" THEN FlipAt(sent.aad, i) ELSE sent.aad,
                      tag |-> t, taglen |-> Len(t), tamper |-> tamper,
                      password |-> <<>>, salt |-> <<>>, rounds |-> 0,
                      op |-> "none", size |-> 0, exists |-> FALSE]
          /\ tag' = t
    /\ pc' = "new"
    /\ outcome' = NoOutcome
    /\ why' = NoWhy
    /\ trace' = <<>>
    /\ freed' = 0
    /\ overread' = 0
    /\ UNCHANGED <<ctx, outBuf, inLen, outLen, held, sent, bcVars>>
    /\ UNCHANGED store
    /\ UNCHANGED concVars

\* std::unique_ptr<EVP_CIPHER_CTX, ...> c { EVP_CIPHER_CTX_new(), EVP_CIPHER_CTX_free }
CtxNew ==
    /\ pc = "new"
    /\ \/ /\ ctx' = EVP_CIPHER_CTX_new
          /\ held' = held + 1
          /\ pc' = After("new")
          /\ trace' = trace \o <<Entry("new", TRUE, 0, <<>>)>>
          /\ UNCHANGED <<call, outBuf, inLen, outLen, tag, outcome, why, freed,
                         overread, sent, bcVars>>
       \/ Fail("new", "fault", <<Entry("new", FALSE, 0, <<>>)>>)
    /\ UNCHANGED store
    /\ UNCHANGED concVars

\* The two length variables and the zero-initialised output buffer.
AllocBuffer ==
    /\ pc = "buf"
    /\ \/ /\ inLen' = Len(call.data)
          /\ outLen' = 0
          /\ outBuf' = Rep(0, Len(call.data))
          /\ Proceed("buf", <<>>)
          /\ UNCHANGED <<ctx, tag, overread, bcVars>>
       \/ Fail("buf", "fault", <<>>)
    /\ UNCHANGED store
    /\ UNCHANGED concVars

\* Why a provider call did not succeed: the tag comparison, or its arguments.
Cause(r) ==
    IF "auth" \in DOMAIN r /\ ~r.auth THEN "auth"
    ELSE IF "pad" \in DOMAIN r /\ ~r.pad THEN "padding"
    ELSE "rejected"

\* A provider call whose result is not looked at: the function goes on.
Provider_Unchecked(step, r, n, bytes, effect) ==
    /\ ctx' = r.ctx
    /\ effect
    /\ Proceed(step, <<Entry(step, r.ok, n, bytes)>>)

(* if (!EVP_...(...)) { throw / return }: one provider call that returns r. *)
(* On success the statement's effect on the locals and on the caller's     *)
(* buffers takes place and the function goes on; otherwise it ends.  The   *)
(* provider may also report an error of its own at any call.               *)
Provider(step, r, n, bytes, effect) ==
    \/ /\ r.ok
       /\ ctx' = r.ctx
       /\ effect
       /\ Proceed(step, <<Entry(step, TRUE, n, bytes)>>)
    \/ /\ ~r.ok
       /\ Fail(step, Cause(r), <<Entry(step, FALSE, n, bytes)>>)
    \/ Fail(step, "fault", <<Entry(step, FALSE, n, bytes)>>)

\* EVP_EncryptInit_ex / EVP_DecryptInit_ex (c, cipher, nullptr, key.data(), iv.data())
CipherInit ==
    /\ pc = "init"
    /\ \E g \in Garbage :
         Provider("init",
                  EVP_CipherInit_ex(ctx, call.mode, call.bits, call.enc,
                                    call.key, call.iv, g),
                  0, <<>>,
                  /\ overread' = PastEnd(call.key, KeySize(call.bits))
                                 + PastEnd(call.iv, DefaultIvLen(call.mode))
                  /\ UNCHANGED <<outBuf, inLen, outLen, tag, bcVars>>)
    /\ UNCHANGED store
    /\ UNCHANGED concVars

\* EVP_CIPHER_CTX_ctrl(c, EVP_CTRL_GCM_SET_IVLEN / EVP_CTRL_CCM_SET_IVLEN, iv.length(), nullptr)
SetIvLen ==
    /\ pc = "ivlen"
    /\ Provider("ivlen", EVP_CTRL_SET_IVLEN(ctx, Len(call.iv)), Len(call.iv), <<>>,
                UNCHANGED <<outBuf, inLen, outLen, tag, overread, bcVars>>)
    /\ UNCHANGED store
    /\ UNCHANGED concVars

(* Encryption (CCM): EVP_CIPHER_CTX_ctrl(c, EVP_CTRL_CCM_SET_TAG,          *)
(*   tag.length(), nullptr).  Decryption: EVP_CIPHER_CTX_ctrl(c,           *)
(*   EVP_CTRL_GCM_SET_TAG / EVP_CTRL_CCM_SET_TAG, tag.length(), tag data). *)
SetTag ==
    /\ pc = "settag"
    /\ LET ptr == IF call.enc THEN <<>> ELSE tag
       IN  Provider("settag", EVP_CTRL_SET_TAG(ctx, Len(tag), ptr), Len(tag), ptr,
                    UNCHANGED <<outBuf, inLen, outLen, tag, overread, bcVars>>)
    /\ UNCHANGED store
    /\ UNCHANGED concVars

\* EVP_*Update(c, nullptr, &outLen, nullptr, inLen): the total length (CCM, with aad)
DeclareLength ==
    /\ pc = "declare"
    /\ Provider("declare", EVP_Update_Length(ctx, inLen), inLen, <<>>,
                /\ outLen' = inLen
                /\ UNCHANGED <<outBuf, inLen, tag, overread, bcVars>>)
    /\ UNCHANGED store
    /\ UNCHANGED concVars

\* EVP_*Update(c, nullptr, &outLen, aad.data(), aad.length())
FeedAad ==
    /\ pc = "aad"
    /\ Provider("aad", EVP_Update_Aad(ctx, call.aad), Len(call.aad), call.aad,
                /\ outLen' = Len(call.aad)
                /\ UNCHANGED <<outBuf, inLen, tag, overread, bcVars>>)
    /\ UNCHANGED store
    /\ UNCHANGED concVars

\* The bytes of buffer b after n bytes w were written at its start.
WriteAt(b, w) == w \o SubSeq(b, Len(w) + 1, Len(b))

\* EVP_*Update(c, out, &outLen, data.data(), inLen)
UpdateData ==
    /\ pc = "update"
    /\ LET r == EVP_Update_Data(ctx, Take(call.data, inLen))
       IN  Provider("update", r, inLen, call.data,
                    /\ outBuf' = WriteAt(outBuf, r.out)
                    /\ outLen' = Len(r.out)
                    /\ UNCHANGED <<inLen, tag, overread, bcVars>>)
    /\ UNCHANGED store
    /\ UNCHANGED concVars

\* A finalize that is given the update's length variable: it sets that one to 0.
Finalize_SameLength ==
    /\ pc = "final"
    /\ Provider("final", EVP_Final_ex(ctx), 0, <<>>,
                /\ outLen' = 0
                /\ UNCHANGED <<outBuf, inLen, tag, overread, bcVars>>)
    /\ UNCHANGED store
    /\ UNCHANGED concVars

\* EVP_EncryptFinal_ex / EVP_DecryptFinal_ex (c, out, &inLen): no byte, inLen = 0
Finalize ==
    /\ pc = "final"
    /\ Provider("final", EVP_Final_ex(ctx), 0, <<>>,
                /\ inLen' = 0
                /\ UNCHANGED <<outBuf, outLen, tag, overread, bcVars>>)
    /\ UNCHANGED store
    /\ UNCHANGED concVars

(* EVP_CIPHER_CTX_ctrl(c, EVP_CTRL_GCM_GET_TAG / EVP_CTRL_CCM_GET_TAG,     *)
(*   tag.length(), tag data): QAead writes through                         *)
(*   const_cast<char*>(tag.constData()), AuthenticatedEncryption through   *)
(*   tag->data(); either way into the bytes the caller's array holds.      *)
GetTag ==
    /\ pc = "gettag"
    /\ LET r == EVP_CTRL_GET_TAG(ctx, Len(tag))
       IN  Provider("gettag", r, Len(tag), <<>>,
                    /\ tag' = WriteAt(tag, r.out)
                    /\ UNCHANGED <<outBuf, inLen, outLen, overread, bcVars>>)
    /\ UNCHANGED store
    /\ UNCHANGED concVars

(* The message a successful encryption leaves with its caller; ckey and    *)
(* civ record the key and the nonce or iv its context ran with.            *)
Message_of(c, bytes, t) ==
    [mode |-> c.mode, bits |-> c.bits, key |-> c.key, iv |-> c.iv, aad |-> c.aad,
     ct |-> bytes, tag |-> t, pt |-> c.data,
     password |-> c.password, salt |-> c.salt, rounds |-> c.rounds,
     ckey |-> ctx.key, civ |-> NonceUsed(ctx)]

\* return QByteArray(reinterpret_cast<char*>(out), outLen);
Return ==
    /\ pc = "ret"
    /\ pc' = "done"
    /\ outcome' = Returned(Take(outBuf, outLen))
    /\ sent' = IF call.enc THEN Message_of(call, Take(outBuf, outLen), tag) ELSE sent
    /\ ScopeExit
    /\ UNCHANGED <<call, inLen, outLen, tag, why, trace, overread, bcVars>>
    /\ UNCHANGED store
    /\ UNCHANGED concVars

----------------------------------------------------------------------------
(* QBlockCipher *)

Passwords == {<<112, 119>>}
Salts == {Rep(115, 8), Rep(115, 4)}
Rounds == {14}
BlockIVs == {Rep(1, 16), Rep(2, 16)}
\* Short inputs, and inputs of one block and of one block and a byte.
BlockDatas ==
    Datas \cup {[i \in 1..n |-> 64 + i] : n \in {AES_BLOCK_SIZE, AES_BLOCK_SIZE + 1}}

\* A caller invokes encryptAesBlockCipher.
CallEncryptBlock ==
    /\ pc = "idle"
    /\ \E mode \in BlockModes, bits \in Bits, key \in Keys, iv \in BlockIVs,
          data \in BlockDatas, password \in Passwords, salt \in Salts, rounds \in Rounds :
          /\ call' = [api |-> "QBlockCipher", mode |-> mode, enc |-> TRUE,
                      bits |-> bits, key |-> key, iv |-> iv, data |-> data,
                      aad |-> <<>>, tag |-> <<>>, taglen |-> 0, tamper |-> "none",
                      password |-> password, salt |-> salt, rounds |-> rounds,
                      op |-> "none", size |-> 0, exists |-> FALSE]
          /\ keyArr' = [bytes |-> key, past |-> <<>>]
          /\ ivArr' = [bytes |-> iv, past |-> <<>>]
    /\ pc' = "new"
    /\ UNCHANGED <<ctx, outBuf, inLen, outLen, tag, outcome, why, trace, held, freed,
                   overread, sent, finalLen, overwrite>>
    /\ UNCHANGED store
    /\ UNCHANGED concVars

BlockTampers == {"none", "data", "password"}

(* A caller invokes decryptAesBlockCipher on the bytes of the last         *)
(* encryption with the same cipher, salt and rounds and with key and iv    *)
(* arrays of its own; one byte of the data may have changed on the way, or *)
(* the password is another one.                                            *)
CallDecryptBlock ==
    /\ pc = "done"
    /\ call.api = "QBlockCipher"
    /\ call.enc
    /\ why.step = "none"
    /\ \E tamper \in BlockTampers, i \in {1, Len(sent.ct)}, key \in Keys,
          iv \in BlockIVs :
          /\ tamper = "data" => i >= 1 /\ i <= Len(sent.ct)
          /\ tamper # "data" => i = 1
          /\ call' = [api |-> "QBlockCipher", mode |-> sent.mode, enc |-> FALSE,
                      bits |-> sent.bits, key |-> key, iv |-> iv,
                      data |-> IF tamper = "data" THEN FlipAt(sent.ct, i) ELSE sent.ct,
                      aad |-> <<>>, tag |-> <<>>, taglen |-> 0, tamper |-> tamper,
                      password |-> IF tamper = "password"
                                   THEN FlipAt(sent.password, 1) ELSE sent.password,
                      salt |-> sent.salt, rounds |-> sent.rounds,
                      op |-> "none", size |-> 0, exists |-> FALSE]
          /\ keyArr' = [bytes |-> key, past |-> <<>>]
          /\ ivArr' = [bytes |-> iv, past |-> <<>>]
    /\ pc' = "new"
    /\ outcome' = NoOutcome
    /\ why' = NoWhy
    /\ trace' = <<>>
    /\ freed' = 0
    /\ overread' = 0
    /\ overwrite' = 0
    /\ finalLen' = 0
    /\ UNCHANGED <<ctx, outBuf, inLen, outLen, tag, held, sent>>
    /\ UNCHANGED store
    /\ UNCHANGED concVars

\* Buffers of the input's length, as the AEAD functions allocate them.
AllocBufferBlock_Exact ==
    /\ pc = "bc_buf"
    /\ \/ /\ outLen' = IF call.enc THEN Len(call.data) + AES_BLOCK_SIZE
                        ELSE Len(call.data)
          /\ finalLen' = 0
          /\ outBuf' = Rep(0, Len(call.data))
          /\ Proceed("bc_buf", <<>>)
          /\ UNCHANGED <<ctx, inLen, tag, overread, keyArr, ivArr, overwrite>>
       \/ Fail("bc_buf", "fault", <<>>)
    /\ UNCHANGED store
    /\ UNCHANGED concVars

(* int cipherTextLength(data.size() + AES_BLOCK_SIZE) in encryption,       *)
(* int plainTextLength(data.size()) in decryption; int finalLength = 0;    *)
(* both buffers are new unsigned char[data.size() + AES_BLOCK_SIZE]().     *)
AllocBufferBlock ==
    /\ pc = "bc_buf"
    /\ \/ /\ outLen' = IF call.enc THEN Len(call.data) + AES_BLOCK_SIZE
                        ELSE Len(call.data)
          /\ finalLen' = 0
          /\ outBuf' = Rep(0, Len(call.data) + AES_BLOCK_SIZE)
          /\ Proceed("bc_buf", <<>>)
          /\ UNCHANGED <<ctx, inLen, tag, overread, keyArr, ivArr, overwrite>>
       \/ Fail("bc_buf", "fault", <<>>)
    /\ UNCHANGED store
    /\ UNCHANGED concVars

(* EVP_BytesToKey(cipher, md, salt.data(), password.data(),                *)
(*   password.length(), rounds, m_key, m_iv): m_key and m_iv are           *)
(* key.data() and iv.data() of the caller's arrays with const cast away;   *)
(* the derived bytes are stored there, whatever the arrays' sizes.         *)
BytesToKey ==
    /\ pc = "bytestokey"
    /\ \E g \in Garbage :
         LET r == EVP_BytesToKey(call.bits, call.salt, call.password, call.rounds, g)
         IN  Provider("bytestokey", [ok |-> r.ok, ctx |-> ctx], Len(call.password),
                      call.password,
                      /\ keyArr' = StoreAt(keyArr, r.key)
                      /\ ivArr' = StoreAt(ivArr, r.iv)
                      /\ overwrite' = PastEnd(keyArr.bytes, Len(r.key))
                                      + PastEnd(ivArr.bytes, Len(r.iv))
                      /\ overread' = PastEnd(call.salt, 8)
                      /\ UNCHANGED <<outBuf, inLen, outLen, tag, finalLen>>)
    /\ UNCHANGED store
    /\ UNCHANGED concVars

\* EVP_EncryptInit_ex / EVP_DecryptInit_ex (c, cipher, nullptr, m_key, m_iv)
CipherInitBlock ==
    /\ pc = "bc_init"
    /\ \E g \in Garbage :
         Provider("bc_init",
                  EVP_CipherInit_ex(ctx, call.mode, call.bits, call.enc,
                                    Memory(keyArr), Memory(ivArr), g),
                  0, <<>>,
                  /\ overread' = overread
                                 + PastEnd(keyArr.bytes, KeySize(call.bits))
                                 + PastEnd(ivArr.bytes, DefaultIvLen(call.mode))
                  /\ UNCHANGED <<outBuf, inLen, outLen, tag, bcVars>>)
    /\ UNCHANGED store
    /\ UNCHANGED concVars

\* The bytes of buffer b after the bytes w were written at b + at.
WriteAtOffset(b, at, w) ==
    [i \in 1..Len(b) |-> IF i > at /\ i <= at + Len(w) THEN w[i - at] ELSE b[i]]

\* EVP_EncryptUpdate / EVP_DecryptUpdate (c, out, &len, data.data(), data.size())
UpdateBlock ==
    /\ pc = "bc_update"
    /\ LET r == EVP_Update_Block(ctx, call.data)
       IN  Provider("bc_update", r, Len(call.data), call.data,
                    /\ outBuf' = WriteAt(outBuf, r.out)
                    /\ outLen' = Len(r.out)
                    /\ UNCHANGED <<inLen, tag, overread, bcVars>>)
    /\ UNCHANGED store
    /\ UNCHANGED concVars

\* A finalize whose return value is not looked at.
FinalizeBlock_Unchecked ==
    /\ pc = "bc_final"
    /\ LET r == EVP_Final_Block(ctx)
       IN  /\ ctx' = r.ctx
           /\ outBuf' = WriteAtOffset(outBuf, outLen, r.out)
           /\ finalLen' = Len(r.out)
           /\ Proceed("bc_final", <<Entry("bc_final", r.ok, outLen, <<>>)>>)
           /\ UNCHANGED <<inLen, outLen, tag, overread, keyArr, ivArr, overwrite>>
    /\ UNCHANGED store
    /\ UNCHANGED concVars

\* EVP_EncryptFinal / EVP_DecryptFinal (c, out + len, &finalLength)
FinalizeBlock ==
    /\ pc = "bc_final"
    /\ LET r == EVP_Final_Block(ctx)
       IN  Provider("bc_final", r, outLen, <<>>,
                    /\ outBuf' = WriteAtOffset(outBuf, outLen, r.out)
                    /\ finalLen' = Len(r.out)
                    /\ UNCHANGED <<inLen, outLen, tag, overread, keyArr, ivArr,
                                   overwrite>>)
    /\ UNCHANGED store
    /\ UNCHANGED concVars

\* return QByteArray(reinterpret_cast<char*>(out), len + finalLength);
ReturnBlock ==
    /\ pc = "bc_ret"
    /\ pc' = "done"
    /\ outcome' = Returned(Take(outBuf, outLen + finalLen))
    /\ sent' = IF call.enc
               THEN Message_of(call, Take(outBuf, outLen + finalLen), <<>>)
               ELSE sent
    /\ ScopeExit
    /\ UNCHANGED <<call, inLen, outLen, tag, why, trace, overread, bcVars>>
    /\ UNCHANGED store
    /\ UNCHANGED concVars

----------------------------------------------------------------------------
(* QBlockCipher::generateSalt(const quint16& size) *)

\* sizeof(size): size is a reference to a quint16, so this is sizeof(quint16).
SizeofSize == 2

SaltSizes == 0..MaxSaltSize

\* Values of a byte the CSPRNG writes.
RandByte == {17, 34}

(* The n bytes at the address of a local array: its elements, then        *)
(* whatever the stack holds behind it (g).                                 *)
StackBytes(arr, n, g) ==
    IF n <= Len(arr) THEN SubSeq(arr, 1, n) ELSE arr \o Rep(g, n - Len(arr))

\* A caller invokes generateSalt(size).
CallGenerateSalt ==
    /\ pc = "idle"
    /\ \E size \in SaltSizes :
         call' = [NoCall EXCEPT !.api = "generateSalt", !.op = "generateSalt",
                                !.size = size]
    /\ pc' = "rand"
    /\ UNCHANGED <<ctx, outBuf, inLen, outLen, tag, outcome, why, trace, held, freed,
                   overread, sent, bcVars, store>>
    /\ UNCHANGED concVars

(* unsigned char arr[sizeof(size)]; RAND_bytes(arr, sizeof(size));         *)
(* arr (outBuf) starts uninitialised; RAND_bytes fills it or fails and     *)
(* leaves it as it is, and its result is not looked at.  outLen is the     *)
(* number of bytes the CSPRNG wrote.                                       *)
RandBytes ==
    /\ pc = "rand"
    /\ \E ok \in BOOLEAN, drawn \in [1..SizeofSize -> RandByte], g \in Garbage :
         /\ outBuf' = IF ok THEN drawn ELSE Rep(g, SizeofSize)
         /\ outLen' = IF ok THEN SizeofSize ELSE 0
         /\ trace' = trace \o <<Entry("rand", ok, SizeofSize,
                                      IF ok THEN drawn ELSE <<>>)>>
    /\ pc' = "salt_ret"
    /\ UNCHANGED <<call, ctx, inLen, tag, outcome, why, held, freed, overread, sent,
                   bcVars, store>>
    /\ UNCHANGED concVars

\* return QByteArray(reinterpret_cast<char*>(arr), size);
ReturnSalt ==
    /\ pc = "salt_ret"
    /\ \E g \in Garbage : outcome' = Returned(StackBytes(outBuf, call.size, g))
    /\ overread' = PastEnd(outBuf, call.size)
    /\ pc' = "done"
    /\ ScopeExit
    /\ UNCHANGED <<call, inLen, outLen, tag, why, trace, sent, bcVars, store>>
    /\ UNCHANGED concVars

----------------------------------------------------------------------------
(* QX509Store *)

\* The provider function an operation calls.
ProviderCall(op) ==
    CASE op = "addCertificateToStore" -> "X509_STORE_add_cert"
      [] op = "addLookup" -> "X509_STORE_add_lookup"
      [] op = "setDepth" -> "X509_STORE_set_depth"
      [] op = "setFlag" -> "X509_STORE_set_flags"
      [] op = "setPurpose" -> "X509_STORE_set_purpose"
      [] op = "setTrust" -> "X509_STORE_set_trust"
      [] op = "loadStoreDefaultCertificates" -> "X509_STORE_set_default_paths"
      [] OTHER -> "X509_STORE_load_locations"

(* What a provider call that returns 0 can have done to the store:         *)
(* X509_STORE_load_locations loads the file and then the directory, and    *)
(* can fail at the directory after it has loaded the file.                 *)
ProviderLeaves(op) ==
    IF op \in LoadLocations
    THEN {store, store \cup {"X509_STORE_load_locations: file"}}
    ELSE {store}

(* A caller invokes a QX509Store function on its store, a fresh one or the *)
(* one of the calls before; the file named may exist or not.               *)
CallStore ==
    /\ \/ pc = "idle"
       \/ pc = "done" /\ call.api = "QX509Store"
    /\ \E op \in StoreOps, exists \in BOOLEAN :
         /\ op \in StoreSetters => ~exists
         /\ call' = [NoCall EXCEPT !.api = "QX509Store", !.op = op,
                                    !.exists = exists]
         /\ pc' = Order(call')[1]
    /\ outcome' = NoOutcome
    /\ why' = NoWhy
    /\ trace' = <<>>
    /\ UNCHANGED <<ctx, outBuf, inLen, outLen, tag, held, freed, overread, sent,
                   bcVars, store>>
    /\ UNCHANGED concVars

\* if (fileInfo.exists()) { ... } return false;
FileExists ==
    /\ pc = "exists"
    /\ trace' = trace \o <<Entry("exists", call.exists, 0, <<>>)>>
    /\ IF call.exists
       THEN /\ pc' = After("exists")
            /\ UNCHANGED <<outcome, why>>
       ELSE /\ pc' = "done"
            /\ outcome' = ReturnedBool(FALSE)
            /\ why' = [step |-> "exists", cause |-> "missing"]
    /\ UNCHANGED <<call, ctx, outBuf, inLen, outLen, tag, held, freed, overread,
                   sent, bcVars, store>>
    /\ UNCHANGED concVars

\* if (!X509_STORE_...(store, ...)) { throw std::runtime_error(...); }
StoreCall ==
    /\ pc = "x509_call"
    /\ \/ /\ store' = store \cup {ProviderCall(call.op)}
          /\ Proceed("x509_call", <<Entry("x509_call", TRUE, 0, <<>>)>>)
          /\ UNCHANGED <<ctx, outBuf, inLen, outLen, tag, overread, bcVars>>
       \/ /\ store' \in ProviderLeaves(call.op)
          /\ Fail("x509_call", "rejected", <<Entry("x509_call", FALSE, 0, <<>>)>>)
    /\ UNCHANGED concVars

\* return true;
StoreReturn ==
    /\ pc = "x509_ret"
    /\ pc' = "done"
    /\ outcome' = ReturnedBool(TRUE)
    /\ UNCHANGED <<call, ctx, outBuf, inLen, outLen, tag, why, trace, held, freed,
                   overread, sent, bcVars, store>>
    /\ UNCHANGED concVars

----------------------------------------------------------------------------

\* The caller is done with the message: the next one starts afresh.
Reset ==
    /\ pc = "done"
    /\ call' = NoCall
    /\ pc' = "idle"
    /\ ctx' = NoCtx
    /\ outBuf' = <<>>
    /\ inLen' = 0
    /\ outLen' = 0
    /\ tag' = <<>>
    /\ outcome' = NoOutcome
    /\ why' = NoWhy
    /\ trace' = <<>>
    /\ held' = held
    /\ freed' = 0
    /\ overread' = 0
    /\ sent' = NoMsg
    /\ finalLen' = 0
    /\ keyArr' = NoArr
    /\ ivArr' = NoArr
    /\ overwrite' = 0
    /\ store' = {}
    /\ UNCHANGED concVars

----------------------------------------------------------------------------
(* One invocation as a function of its locals and the memory of the array  *)
(* objects, statement by statement.                                        *)

Threads == {1, 2}

\* Array objects: one per thread, and one that both threads can be passed.
SharedObject == 0
Objects == {SharedObject} \cup Threads

\* The key, iv and tag arrays as their owners filled them.
InitMem ==
    [key |-> [o \in Objects |-> [bytes |-> Rep(170, 16), past |-> <<>>]],
     iv |-> [o \in Objects |-> [bytes |-> Rep(1, 16), past |-> <<>>]],
     tag |-> [o \in Objects |-> Rep(RawByte(0), 16)]]

ConcPasswords == {<<112, 119>>, <<113, 119>>}

\* encryptAesGcm and encryptAesBlockCipher calls with a 128 bit cipher.
ConcCalls ==
    {[NoCall EXCEPT !.api = "QAead", !.mode = "GCM", !.enc = TRUE, !.bits = 128,
                    !.data = d, !.aad = a] : d \in Datas, a \in Aads}
    \cup {[NoCall EXCEPT !.api = "QBlockCipher", !.mode = m, !.enc = TRUE,
                         !.bits = 128, !.data = d, !.password = p,
                         !.salt = Rep(115, 8), !.rounds = 14] :
             m \in BlockModes, d \in Datas, p \in ConcPasswords}

\* The locals on entry; start is the memory the invocation began with.
LocalInit(c) ==
    [pc |-> Order(c)[1], ctx |-> NoCtx, out |-> <<>>, result |-> NoOutcome,
     tag |-> <<>>, start |-> InitMem]

\* The exception of a failed step, with its text intact.
Thrown(c, step) == CHOOSE o \in FailureOutcome(c.api, step) : o.text = Message(step)

\* The step's provider call returned r: go on with locals l and memory M, or throw.
Then(c, l, M0, r, l2, M2) ==
    IF r.ok
    THEN [l |-> [l2 EXCEPT !.pc = Order(c)[Position(Order(c), l.pc) + 1],
                           !.ctx = r.ctx],
          M |-> M2]
    ELSE [l |-> [l EXCEPT !.pc = "done", !.ctx = NoCtx, !.result = Thrown(c, l.pc)],
          M |-> M0]

(* The statement at l.pc of call c, which was passed the array objects o.  *)
(* key.data(), iv.data() and tag.constData() point into the objects'       *)
(* memory M; the context, the output buffer and the lengths are locals.    *)
Step(c, o, l, M) ==
    CASE l.pc = "new" ->
           [l |-> [l EXCEPT !.pc = Order(c)[2], !.ctx = EVP_CIPHER_CTX_new,
                            !.start = M],
            M |-> M]
      [] l.pc \in {"buf", "bc_buf"} ->
           Then(c, l, M, [ok |-> TRUE, ctx |-> l.ctx], l, M)
      [] l.pc \in {"init", "bc_init"} ->
           Then(c, l, M,
                EVP_CipherInit_ex(l.ctx, c.mode, c.bits, c.enc, Memory(M.key[o]),
                                  Memory(M.iv[o]), 0),
                l, M)
      [] l.pc = "ivlen" ->
           Then(c, l, M, EVP_CTRL_SET_IVLEN(l.ctx, Len(M.iv[o].bytes)), l, M)
      [] l.pc = "aad" ->
           Then(c, l, M, EVP_Update_Aad(l.ctx, c.aad), l, M)
      [] l.pc = "update" ->
           LET r == EVP_Update_Data(l.ctx, c.data)
           IN  Then(c, l, M, r, [l EXCEPT !.out = r.out], M)
      [] l.pc = "final" ->
           Then(c, l, M, EVP_Final_ex(l.ctx), l, M)
      [] l.pc = "gettag" ->
           LET r == EVP_CTRL_GET_TAG(l.ctx, Len(M.tag[o]))
           IN  Then(c, l, M, r, l, [M EXCEPT !.tag[o] = WriteAt(M.tag[o], r.out)])
      [] l.pc = "bytestokey" ->
           LET r == EVP_BytesToKey(c.bits, c.salt, c.password, c.rounds, 0)
           IN  Then(c, l, M, [ok |-> r.ok, ctx |-> l.ctx], l,
                    [M EXCEPT !.key[o] = StoreAt(M.key[o], r.key),
                              !.iv[o] = StoreAt(M.iv[o], r.iv)])
      [] l.pc = "bc_update" ->
           LET r == EVP_Update_Block(l.ctx, c.data)
           IN  Then(c, l, M, r, [l EXCEPT !.out = r.out], M)
      [] l.pc = "bc_final" ->
           LET r == EVP_Final_Block(l.ctx)
           IN  Then(c, l, M, r, [l EXCEPT !.out = l.out \o r.out], M)
      [] OTHER ->
           \* "ret", "bc_ret": return the bytes; the caller then reads its tag array
           [l |-> [l EXCEPT !.pc = "done", !.ctx = NoCtx, !.result = Returned(l.out),
                            !.tag = IF c.api = "QAead" THEN M.tag[o] ELSE <<>>],
            M |-> M]

\* The invocation run from locals l and memory M to its end, nothing else running.
RECURSIVE Run(_, _, _, _)
Run(c, o, l, M) ==
    IF l.pc = "done" THEN l
    ELSE Run(c, o, Step(c, o, l, M).l, Step(c, o, l, M).M)

Init ==
    /\ SeqInit
    /\ tcall = [t \in Threads |-> NoCall]
    /\ passed = [t \in Threads |-> t]
    /\ tloc = [t \in Threads |-> LocalInit(NoCall)]
    /\ mem = InitMem

Next ==
    \/ CallEncrypt
    \/ CallDecrypt
    \/ CtxNew
    \/ AllocBuffer
    \/ CipherInit
    \/ SetIvLen
    \/ SetTag
    \/ DeclareLength
    \/ FeedAad
    \/ UpdateData
    \/ Finalize
    \/ GetTag
    \/ Return
    \/ CallEncryptBlock
    \/ CallDecryptBlock
    \/ AllocBufferBlock
    \/ BytesToKey
    \/ CipherInitBlock
    \/ UpdateBlock
    \/ FinalizeBlock
    \/ ReturnBlock
    \/ CallGenerateSalt
    \/ RandBytes
    \/ ReturnSalt
    \/ CallStore
    \/ FileExists
    \/ StoreCall
    \/ StoreReturn
    \/ Reset

Spec == Init /\ [][Next]_vars

----------------------------------------------------------------------------
(* Concurrent invocations: threads that each run one encryption, with a    *)
(* context and an output buffer of their own, on array objects that are    *)
(* their own or the ones the other thread was passed too.                  *)

\* One thread's invocation from its first statement to its return.
ConcSteps(t) ==
    /\ tloc[t].pc # "done"
    /\ LET s == Step(tcall[t], passed[t], tloc[t], mem)
       IN  /\ tloc' = [tloc EXCEPT ![t] = s.l]
           /\ mem' = s.M
    /\ UNCHANGED <<tcall, passed, seqVars>>

ConcInit ==
    /\ SeqInit
    /\ tcall \in [Threads -> ConcCalls]
    /\ passed \in [Threads -> Objects]
    /\ \A t \in Threads : passed[t] \in {SharedObject, t}
    /\ tloc = [t \in Threads |-> LocalInit(tcall[t])]
    /\ mem = InitMem

ConcNext == \E t \in Threads : ConcSteps(t)

ConcSpec == ConcInit /\ [][ConcNext]_vars

----------------------------------------------------------------------------
(* Properties *)

Done == pc = "done"
Succeeded == Done /\ why.step = "none"
Failed == Done /\ why.step # "none"
Decrypting == call.api \in Apis /\ ~call.enc
Encrypting == call.api \in Apis /\ call.enc

\* The steps of the invocation so far, and whether step s was made / succeeded.
Made(s) == \E i \in 1..Len(trace) : trace[i].step = s
MadeOk(s) == \E i \in 1..Len(trace) : trace[i].step = s /\ trace[i].ok
\* Every call of step s comes after a successful call of step b.
Precedes(b, s) ==
    \A i \in 1..Len(trace) :
        trace[i].step = s => \E j \in 1..(i - 1) : trace[j].step = b /\ trace[j].ok

\* Key of the cipher's size; nonce of a length the algorithm takes.
ValidKey(c) == Len(c.key) = KeySize(c.bits)
ValidNonce(c) ==
    IF c.mode = "GCM" THEN Len(c.iv) > 0 ELSE Len(c.iv) >= 7 /\ Len(c.iv) <= 13

(* C1: round trip.  Decrypting the ciphertext of a successful encryption   *)
(* with the same key, nonce and aad and the tag the encryption wrote       *)
(* succeeds and returns the plaintext, for every valid key and nonce, when *)
(* the provider reports no error of its own.                               *)
C1_RoundTrip ==
    (Done /\ Decrypting /\ call.tamper = "none" /\ why.cause # "fault"
          /\ ValidKey(call) /\ ValidNonce(call))
        => (Succeeded /\ outcome = Returned(sent.pt))

TagCheckStep(mode) == IF mode = "GCM" THEN "final" ELSE "update"

C3_PlaintextOnlyAfterFinalize ==
    Decrypting
        => /\ outcome.bytes # <<>> => MadeOk("final")
           /\ (Done /\ why.step = "final")
                => outcome.bytes = <<>> /\ outcome.kind # "none"

\* Finalize failed after the data update had written plaintext bytes.
C3_Witness ==
    /\ Done /\ Decrypting /\ why.step = "final" /\ call.mode = "GCM"
    /\ \E i \in 1..Len(trace) : trace[i].step = "update" /\ trace[i].ok /\ trace[i].n > 0

\* The provider steps the function of the invocation makes.
StepsOf(c) == {Order(c)[i] : i \in 1..Len(Order(c))} \cap ProviderSteps

C5_ContextReleasedOnce ==
    /\ pc \in {"idle", "done"} => held = 0 /\ ~ctx.alloc
    /\ Done => freed = (IF MadeOk("new") THEN 1 ELSE 0)
    /\ pc \notin {"idle", "done"}
         => /\ freed = 0
            /\ held = (IF MadeOk("new") THEN 1 ELSE 0)
            /\ ctx.alloc = MadeOk("new")

C5_Witness ==
    /\ Done /\ call.api = "QBlockCipher" /\ why.cause = "padding"
    /\ MadeOk("new") /\ freed = 1 /\ held = 0

(* C6: in CCM, the control calls that set the nonce length and the tag     *)
(* length (encryption) or the expected tag (decryption) have both          *)
(* succeeded before the first update call, whatever that update feeds.     *)
C6_CcmControlsBeforeUpdate ==
    call.mode = "CCM"
        => \A s \in {"declare", "aad", "update"} :
              Precedes("ivlen", s) /\ Precedes("settag", s)

C6_Witness ==
    /\ Succeeded /\ Decrypting /\ call.mode = "CCM" /\ call.aad # <<>>
    /\ Made("declare") /\ Made("aad") /\ Made("update")

(* C7: in CCM with aad, an update call without input and output declares   *)
(* the length data.size() before the aad is fed, the aad is fed before the *)
(* data, and the data update is given that same length.                    *)
C7_CcmLengthBeforeAad ==
    (call.mode = "CCM" /\ call.aad # <<>>)
        => /\ Precedes("declare", "aad")
           /\ Precedes("aad", "update")
           /\ \A i \in 1..Len(trace) :
                /\ trace[i].step = "declare"
                     => trace[i].n = Len(call.data) /\ trace[i].bytes = <<>>
                /\ trace[i].step = "aad" => trace[i].bytes = call.aad
                /\ trace[i].step = "update"
                     => trace[i].n = Len(call.data) /\ trace[i].bytes = call.data

C7_Witness ==
    /\ Succeeded /\ Encrypting /\ call.mode = "CCM" /\ call.aad # <<>>
    /\ call.data # <<>> /\ MadeOk("update")

(* C8: a decryption reaches finalize only after the control call that      *)
(* installs the caller's tag, all tag.length() bytes of it, has succeeded, *)
(* and the context then holds that tag.                                    *)
C8_TagInstalledBeforeFinalize ==
    Decrypting
        => /\ Precedes("settag", "final")
           /\ \A i \in 1..Len(trace) :
                trace[i].step = "settag"
                    => trace[i].bytes = call.tag /\ trace[i].n = Len(call.tag)
           /\ pc = "final" => ctx.tagbuf = call.tag /\ ctx.taglen = Len(call.tag)
           /\ tag = call.tag

C8_Witness ==
    Done /\ Decrypting /\ Made("final") /\ call.mode = "GCM" /\ call.tamper = "tag"

(* C9: after a successful encryption the caller's tag array holds the tag  *)
(* of the context, read after finalize succeeded, and has the length it    *)
(* had on entry; the tag is never read before finalize.                    *)
C9_TagAfterFinalize ==
    Encrypting
        => /\ Precedes("final", "gettag")
           /\ Len(tag) = call.taglen
           /\ pc = "ret" => tag = Mac(ctx.mac, call.taglen)
           /\ Succeeded
                => /\ MadeOk("gettag")
                   /\ sent.tag = tag
                   /\ \A i \in 1..call.taglen :
                        tag[i] = MacByte(i, tag[1][2]) /\ tag[i][2][4] = outcome.bytes

C9_Witness ==
    Succeeded /\ Encrypting /\ call.api = "QAead" /\ call.taglen = 8 /\ call.data # <<>>

(* C10: a request whose key length differs from the key size of the cipher *)
(* is rejected by the init step, before aad or data is fed, and no byte    *)
(* past the end of the key is read.                                        *)
C10_WrongKeyLengthRejected ==
    (call.api \in Apis /\ ~ValidKey(call) /\ Made("init"))
        => /\ ~MadeOk("init")
           /\ ~Made("aad") /\ ~Made("update")
           /\ overread = 0

\* The caller's key and iv arrays hold what they held on entry.
ArraysAsPassed ==
    /\ keyArr = [bytes |-> call.key, past |-> <<>>]
    /\ ivArr = [bytes |-> call.iv, past |-> <<>>]

(* C11: no operation partially succeeds.  An invocation that failed at any *)
(* step gave its caller no byte, and the tag array and, in the block       *)
(* cipher functions, the key and iv arrays hold what they held on entry.   *)
C11_NoPartialSuccess ==
    Failed
        => /\ outcome.bytes = <<>>
           /\ tag = call.tag
           /\ call.api = "QBlockCipher" => ArraysAsPassed

\* The context after the aad block of the function was run with an aad of
\* length 0: in CCM the length declaration, then the aad update.
AfterEmptyAad(c) ==
    LET d == IF c.mode = "CCM" THEN EVP_Update_Length(c, inLen)
             ELSE [ok |-> TRUE, ctx |-> c]
        a == EVP_Update_Aad(d.ctx, <<>>)
    IN  [ok |-> d.ok /\ a.ok, ctx |-> a.ctx]

DecryptingBlock == call.api = "QBlockCipher" /\ ~call.enc

(* C13: block cipher round trip.  decryptAesBlockCipher on the bytes a     *)
(* successful encryptAesBlockCipher returned, with the same password,      *)
(* salt, rounds and cipher, succeeds and returns the plaintext, when the   *)
(* provider reports no error of its own.                                   *)
C13_BlockRoundTrip ==
    (Done /\ DecryptingBlock /\ call.tamper = "none" /\ why.cause # "fault")
        => (Succeeded /\ outcome = Returned(sent.pt))

(* C14: key derivation is deterministic.  A decryption with the password,  *)
(* salt, rounds and cipher of the encryption initialises its context with  *)
(* the key and the iv the encryption's context had, whatever its key and   *)
(* iv arrays held.                                                         *)
C14_SameDerivedKeyAndIv ==
    (DecryptingBlock /\ call.tamper # "password" /\ MadeOk("bc_init")
                     /\ pc \in {"bc_update", "bc_final", "bc_ret"})
        => ctx.key = sent.ckey /\ ctx.iv = sent.civ

InBlockBody == pc \in {"bytestokey", "bc_init", "bc_update", "bc_final", "bc_ret"}

(* C15: in the block cipher functions the output buffer has the capacity   *)
(* data.size() + 16; no update or finalize write ends beyond it; the       *)
(* update's byte count is kept and finalize writes its bytes at that       *)
(* offset, leaving the bytes before it; the returned length is the         *)
(* update's count plus finalize's.                                         *)
C15_BlockBufferContract ==
    /\ [](call.api = "QBlockCipher"
            => /\ InBlockBody => Len(outBuf) = Len(call.data) + AES_BLOCK_SIZE
               /\ pc = "bc_update"
                    => Len(EVP_Update_Block(ctx, call.data).out) <= Len(outBuf)
               /\ pc = "bc_final"
                    => outLen + Len(EVP_Final_Block(ctx).out) <= Len(outBuf)
               /\ Succeeded => Len(outcome.bytes) = outLen + finalLen)
    /\ [][(pc = "bc_update" /\ pc' = "bc_final")
            => /\ outLen' = Len(EVP_Update_Block(ctx, call.data).out)
               /\ Take(outBuf', outLen') = EVP_Update_Block(ctx, call.data).out]_vars
    /\ [][(pc = "bc_final" /\ pc' = "bc_ret")
            => /\ finalLen' = Len(EVP_Final_Block(ctx).out)
               /\ Take(outBuf', outLen) = Take(outBuf, outLen)
               /\ SubSeq(outBuf', outLen + 1, outLen + finalLen')
                    = EVP_Final_Block(ctx).out]_vars

\* An encryption of one whole block: update and finalize fill the buffer.
C15_Witness ==
    /\ Succeeded /\ call.api = "QBlockCipher" /\ call.enc /\ call.mode = "CBC"
    /\ outLen = AES_BLOCK_SIZE /\ finalLen = AES_BLOCK_SIZE
    /\ Len(outcome.bytes) = Len(call.data) + AES_BLOCK_SIZE

C17_SaltFromCsprng ==
    (Done /\ call.api = "generateSalt")
        => /\ Len(outcome.bytes) = call.size
           /\ overread = 0
           /\ \E i \in 1..Len(trace) :
                 /\ trace[i].step = "rand" /\ trace[i].ok
                 /\ outcome.bytes = Take(trace[i].bytes, call.size)

\* What invocation t would have given from the memory it began with, run alone.
Alone(t) == Run(tcall[t], passed[t], LocalInit(tcall[t]), tloc[t].start)

(* C18: in every interleaving of the concurrent invocations, each with a   *)
(* context of its own, the result bytes, the tag and the success or        *)
(* failure of every invocation are those of the same invocation run alone, *)
(* also when invocations are passed the same key, iv or tag array objects. *)
C18_OutcomeAsAlone ==
    \A t \in Threads :
        tloc[t].pc = "done"
            => /\ tloc[t].result = Alone(t).result
               /\ tloc[t].tag = Alone(t).tag

\* The operations whose documentation promises "" or false on failure.
Documented == call.api \in {"QAead", "QBlockCipher", "QX509Store"}

(* C19: when a provider step fails, a QAead or QBlockCipher operation      *)
(* returns the empty byte array and a QX509Store operation returns false;  *)
(* the call returns to its caller, nothing is thrown.                      *)
C19_FailureIsReturned ==
    (Failed /\ Documented /\ why.step \in ProviderSteps \cup {"x509_call"})
        => /\ outcome.kind = "returned"
           /\ call.api = "QX509Store" => outcome = ReturnedBool(FALSE)
           /\ call.api # "QX509Store" => outcome = Returned(<<>>)

\* An invocation of one of the loadLocations overloads is under way.
InLoadLocations ==
    call.api = "QX509Store" /\ call.op \in LoadLocations /\ pc \notin {"idle", "done"}

(* C20: each overload of loadLocations looks for the file before any       *)
(* provider call: the provider is called only after the check has passed,  *)
(* and when the file does not exist the function returns false, has made   *)
(* no provider call and has left the store as it was.                      *)
C20_ExistenceCheckFirst ==
    /\ []((call.api = "QX509Store" /\ call.op \in LoadLocations)
            => /\ Precedes("exists", "x509_call")
               /\ (Done /\ ~call.exists)
                    => /\ outcome = ReturnedBool(FALSE)
                       /\ ~Made("x509_call")
                       /\ why.step = "exists")
    /\ [][(InLoadLocations /\ ~call.exists) => store' = store]_vars

\* A missing file, named to a store that already holds something.
C20_Witness ==
    /\ Done /\ call.api = "QX509Store" /\ call.op \in LoadLocations
    /\ ~call.exists /\ store # {} /\ outcome = ReturnedBool(FALSE)

\* The invocation is one of the AEAD or block cipher functions.
Ciphering == call.api \in Apis \cup {"QBlockCipher"}

\* The provider steps of the function's text, in its order.
ProviderOrder(c) == SelectSeq(Order(c), LAMBDA s : s \in ProviderSteps)

(* C21: the provider steps of an invocation are a prefix of the one fixed  *)
(* order of its function, so each is made at most once; every step before  *)
(* the last one made has succeeded, and a step that failed, the context    *)
(* allocation included, ends the invocation with nothing after it but the  *)
(* release of the context.                                                 *)
C21_FailFast ==
    Ciphering
        => /\ Len(trace) <= Len(ProviderOrder(call))
           /\ \A i \in 1..Len(trace) :
                 /\ trace[i].step = ProviderOrder(call)[i]
                 /\ i < Len(trace) => trace[i].ok
           /\ (trace # <<>> /\ ~trace[Len(trace)].ok)
                 => /\ Failed
                    /\ why.step = trace[Len(trace)].step
                    /\ ~ctx.alloc /\ held = 0

\* A CCM decryption that the provider stopped at the nonce length.
C21_Witness ==
    /\ Failed /\ Decrypting /\ call.mode = "CCM" /\ why.step = "ivlen"
    /\ Len(trace) = 3 /\ freed = 1

(* C22: once init and the nonce length control have succeeded, the nonce   *)
(* the context runs the transform with is the caller's nonce, all          *)
(* iv.length() bytes of it and no other byte, so that nonces of one length *)
(* that differ in a byte give different nonces in the context.             *)
C22_WholeNonceUsed ==
    (call.api \in Apis /\ ValidNonce(call) /\ MadeOk("ivlen") /\ ~Done)
        => /\ NonceUsed(ctx) = call.iv
           /\ overread = PastEnd(call.key, KeySize(call.bits))

\* The statements of an AEAD function after the buffer allocation.
InAeadBody == call.api \in Apis /\ pc \notin {"idle", "new", "buf", "done"}

\* The out argument of finalize: cipherText.get() / plainText.get(), the
\* start of the output buffer.
FinalOffset == 0

\* Numbers of bytes a provider's finalize can emit: GCM and CCM none, a
\* provider that emits in finalize from 1 byte to one block.
FinalEmits == 0..AES_BLOCK_SIZE

(* C23: the output buffer of an AEAD function has the capacity of the      *)
(* input length, and neither the data update nor finalize writes past it,  *)
(* for every input length and also when finalize emits 1 byte to a block.  *)
C23_AeadBufferContract ==
    InAeadBody
        => /\ Len(outBuf) = Len(call.data)
           /\ pc = "update"
                => Len(EVP_Update_Data(ctx, Take(call.data, inLen)).out) <= Len(outBuf)
           /\ pc = "final"
                => \A k \in FinalEmits : FinalOffset + k <= Len(outBuf)

\* What the data update of this state's context gives.
UpdateNow == EVP_Update_Data(ctx, Take(call.data, inLen))

(* C24: in the AEAD functions the data update leaves its output at the     *)
(* start of the output buffer and its count in the length variable; no     *)
(* later statement, finalize included, changes a byte of the buffer or the *)
(* count, and the function returns exactly those bytes.                    *)
C24_FinalizeKeepsUpdateOutput ==
    /\ [][(call.api \in Apis /\ pc = "update" /\ pc' # "done")
            => /\ outLen' = Len(UpdateNow.out)
               /\ Take(outBuf', outLen') = UpdateNow.out]_vars
    /\ [][(InAeadBody /\ MadeOk("update") /\ pc' # "done")
            => outBuf' = outBuf /\ outLen' = outLen]_vars
    /\ [][(InAeadBody /\ pc = "final" /\ pc' = "done")
            => outcome'.bytes = <<>>]_vars
    /\ [][(InAeadBody /\ pc = "ret")
            => outcome' = Returned(Take(outBuf, outLen))]_vars

\* A GCM decryption returned the bytes the update wrote before finalize ran.
C24_Witness ==
    /\ Succeeded /\ Decrypting /\ call.mode = "GCM" /\ call.data # <<>>
    /\ MadeOk("final") /\ Len(outcome.bytes) = Len(call.data)

(* C25: when encryptAesBlockCipher or decryptAesBlockCipher has ended, by  *)
(* return or by exception, the caller's key and iv arrays hold the bytes   *)
(* and have the length they had on entry, and no byte was written past the *)
(* end of either array.                                                    *)
C25_KeyAndIvUntouched ==
    (Done /\ call.api = "QBlockCipher")
        => /\ keyArr.bytes = call.key /\ ivArr.bytes = call.iv
           /\ keyArr.past = <<>> /\ ivArr.past = <<>>
           /\ overwrite = 0

\* Key and iv arrays long enough for the cipher's key and iv.
SufficientArrays ==
    Len(call.key) >= KeySize(call.bits) /\ Len(call.iv) >= AES_BLOCK_SIZE

\* Other contents for an array of n bytes.
OtherContents(n) == {Rep(b, n) : b \in {3, 170}}

\* The memory in which the arrays passed hold the bytes k and i.
MemoryWith(k, i) ==
    [InitMem EXCEPT !.key[SharedObject] = [bytes |-> k, past |-> <<>>],
                    !.iv[SharedObject] = [bytes |-> i, past |-> <<>>]]

\* The same call made with key and iv arrays that hold k and i.
WithArrays(k, i) == Run(call, SharedObject, LocalInit(call), MemoryWith(k, i))

(* C26: what encryptAesBlockCipher or decryptAesBlockCipher gives depends  *)
(* on data, password, salt, rounds and cipher only: the same call with     *)
(* other bytes in key and iv arrays of the same sufficient length returns  *)
(* the same bytes or fails at the same step in the same way.               *)
C26_ResultIndependentOfKeyIv ==
    (Done /\ call.api = "QBlockCipher" /\ why.cause # "fault" /\ SufficientArrays)
        => \A k \in OtherContents(Len(call.key)), i \in OtherContents(Len(call.iv)) :
              /\ Observable(WithArrays(k, i).result) = Observable(outcome)
              /\ Failed => WithArrays(k, i).result.text = Message(why.step)

\* A call of encrypt_aes_gcm, decrypt_aes_gcm, encrypt_aes_ccm or decrypt_aes_ccm.
Legacy == call.api = "AuthenticatedEncryption"

(* C27: encrypt_aes_gcm, decrypt_aes_gcm, encrypt_aes_ccm and              *)
(* decrypt_aes_ccm return an empty byte array exactly when a step of the   *)
(* operation failed, for every input, empty data included.                 *)
C27_EmptyIffFailed ==
    (Done /\ Legacy) => (outcome = Returned(<<>>) <=> Failed)

----------------------------------------------------------------------------
(* One AEAD invocation as a function of its arguments, of the bytes behind *)
(* the key and nonce arrays (g) and of the step at which the provider      *)
(* reports an error of its own (f, or "none").                             *)

\* The function of the other class with the same name pattern, same arguments.
Twin(c) ==
    [c EXCEPT !.api = IF c.api = "QAead" THEN "AuthenticatedEncryption" ELSE "QAead"]

\* The locals on entry; failed is the step that ended the invocation.
Locals(c) ==
    [pc |-> Order(c)[1], ctx |-> NoCtx, inLen |-> 0, outLen |-> 0, outBuf |-> <<>>,
     tag |-> c.tag, trace |-> <<>>, failed |-> "none", bytes |-> <<>>]

(* The statement at l.pc: the provider's answer r, the length and bytes it *)
(* was passed, and the locals l2 once it has succeeded.                    *)
Statement(c, l, g) ==
    CASE l.pc = "new" ->
           [r |-> [ok |-> TRUE, ctx |-> EVP_CIPHER_CTX_new], n |-> 0, bytes |-> <<>>,
            l2 |-> l]
      [] l.pc = "buf" ->
           [r |-> [ok |-> TRUE, ctx |-> l.ctx], n |-> 0, bytes |-> <<>>,
            l2 |-> [l EXCEPT !.inLen = Len(c.data), !.outLen = 0,
                             !.outBuf = Rep(0, Len(c.data))]]
      [] l.pc = "init" ->
           [r |-> EVP_CipherInit_ex(l.ctx, c.mode, c.bits, c.enc, c.key, c.iv, g),
            n |-> 0, bytes |-> <<>>, l2 |-> l]
      [] l.pc = "ivlen" ->
           [r |-> EVP_CTRL_SET_IVLEN(l.ctx, Len(c.iv)), n |-> Len(c.iv),
            bytes |-> <<>>, l2 |-> l]
      [] l.pc = "settag" ->
           LET ptr == IF c.enc THEN <<>> ELSE l.tag
           IN  [r |-> EVP_CTRL_SET_TAG(l.ctx, Len(l.tag), ptr), n |-> Len(l.tag),
                bytes |-> ptr, l2 |-> l]
      [] l.pc = "declare" ->
           [r |-> EVP_Update_Length(l.ctx, l.inLen), n |-> l.inLen, bytes |-> <<>>,
            l2 |-> [l EXCEPT !.outLen = l.inLen]]
      [] l.pc = "aad" ->
           [r |-> EVP_Update_Aad(l.ctx, c.aad), n |-> Len(c.aad), bytes |-> c.aad,
            l2 |-> [l EXCEPT !.outLen = Len(c.aad)]]
      [] l.pc = "update" ->
           LET r == EVP_Update_Data(l.ctx, Take(c.data, l.inLen))
           IN  [r |-> r, n |-> l.inLen, bytes |-> c.data,
                l2 |-> [l EXCEPT !.outBuf = WriteAt(l.outBuf, r.out),
                                 !.outLen = Len(r.out)]]
      [] l.pc = "final" ->
           [r |-> EVP_Final_ex(l.ctx), n |-> 0, bytes |-> <<>>,
            l2 |-> [l EXCEPT !.inLen = 0]]
      [] l.pc = "gettag" ->
           LET r == EVP_CTRL_GET_TAG(l.ctx, Len(l.tag))
           IN  [r |-> r, n |-> Len(l.tag), bytes |-> <<>>,
                l2 |-> [l EXCEPT !.tag = WriteAt(l.tag, r.out)]]

\* The invocation from locals l to its return or its first failed step.
RECURSIVE Execute(_, _, _, _)
Execute(c, f, g, l) ==
    IF l.pc = "done" THEN l
    ELSE IF l.pc = "ret"
    THEN [l EXCEPT !.pc = "done", !.bytes = Take(l.outBuf, l.outLen)]
    ELSE LET s == Statement(c, l, g)
             ok == s.r.ok /\ f # l.pc
             logged == IF l.pc = "buf" THEN <<>>
                       ELSE <<Entry(l.pc, ok, s.n, s.bytes)>>
         IN  IF ok
             THEN Execute(c, f, g,
                          [s.l2 EXCEPT !.pc = Order(c)[Position(Order(c), l.pc) + 1],
                                       !.ctx = s.r.ctx,
                                       !.trace = l.trace \o logged])
             ELSE [l EXCEPT !.pc = "done", !.failed = l.pc,
                            !.trace = l.trace \o logged]

\* The step at which the provider reported an error of its own, if it did.
FaultAt == IF why.cause = "fault" THEN why.step ELSE "none"

(* C28: each QAead function and the AuthenticatedEncryption function of    *)
(* the same name pattern are equivalent: given the same arguments and the  *)
(* same provider behaviour, the other function makes the same provider     *)
(* calls with the same arguments, ends at the same step, and on success    *)
(* returns the same bytes and leaves the same tag.                         *)
C28_SameAsTwin ==
    (Done /\ call.api \in Apis)
        => \A g \in Garbage :
              LET t == Execute(Twin(call), FaultAt, g, Locals(Twin(call)))
              IN  /\ t.trace = trace
                  /\ t.failed = why.step
                  /\ Succeeded => t.bytes = outcome.bytes /\ t.tag = tag

====
